---- MODULE Spec2Model ----
(***************************************************************************)
(* Call lifecycle state tracker of vf-voice-outbound (src/index.js).       *)
(*                                                                         *)
(* The three process-wide maps (callStatuses, callTimeouts, callStates),   *)
(* the timers created with setTimeout, and the HTTP handlers that are      *)
(* suspended at an await are the state.  Every handler, every resumption   *)
(* after an await and every timer callback is one action: Node runs each   *)
(* of them to completion on one thread.                                    *)
(*                                                                         *)
(* JavaScript values: a string is a TLA+ string, except the two kinds of   *)
(* strings the code inspects character by character (CallDuration, parsed  *)
(* by parseInt, and the phone numbers, matched by a regular expression),   *)
(* which are sequences of one-character strings.  An object is a record    *)
(* whose DOMAIN holds the keys that carry a value: a key whose value is    *)
(* undefined is left out, as JSON.stringify leaves it out.  A Map is a     *)
(* function whose DOMAIN is the set of keys the Map has.  Time is the      *)
(* millisecond count new Date() reads.                                     *)
(***************************************************************************)
EXTENDS Integers, Sequences, FiniteSets, Bags, TLC

VARIABLES
    now,             \* the wall clock, in milliseconds
    callStatuses,    \* Map callSid -> call record
    callTimeouts,    \* Map callSid -> handle returned by setTimeout in makeCall
    callStates,      \* Map callSid -> { timestamps }
    timeoutTimers,   \* pending 45-second timers (handles not yet fired or cleared)
    retentionTimers, \* pending 1-hour deletion timers (a bag: they are anonymous)
    placing,         \* GET /call handlers suspended at await client.calls.create
    voicing,         \* POST /voice handlers suspended at an await
    usedSids,        \* call sids the provider has assigned so far
    lastStep,        \* the last handler or timer callback that ran, with its response
    nSteps,          \* number of requests received and idle clock ticks so far
    inbox,           \* a request in flight to the server: <<>> or <<request>>
    armed,           \* history: callSid -> due time of the timer armed at placement
    folds            \* history: callSid -> which folds were made so far

vars == <<now, callStatuses, callTimeouts, callStates, timeoutTimers,
          retentionTimers, placing, voicing, usedSids, lastStep, nSteps,
          inbox, armed, folds>>

maps == <<callStatuses, callTimeouts, callStates>>

----------------------------------------------------------------------------
(* Bounds of the model *)

MaxSteps == 3

(* Program constants *)

timeoutDuration == 45000
(* Fault: the record is kept for a minute *)
RetentionWindowMinute == 60 * 1000
RetentionWindow == 60 * 60 * 1000
ClockTick == 1
MinDigits == 10
MaxDigits == 15
RealConversation == 2

CallIds == {"CA1", "CA2"}

----------------------------------------------------------------------------
(* Maps *)

EmptyMap == <<>>
MapHas(m, k) == k \in DOMAIN m
MapSet(m, k, v) == [x \in DOMAIN m \cup {k} |-> IF x = k THEN v ELSE m[x]]
MapDelete(m, k) == [x \in DOMAIN m \ {k} |-> m[x]]

(* obj.key is truthy: the key carries a value and the value is not the     *)
(* empty string (Truthy for a string, TruthyChars for a character sequence)*)
Has(obj, k) == k \in DOMAIN obj
Truthy(obj, k) == Has(obj, k) /\ obj[k] # ""
TruthyChars(obj, k) == Has(obj, k) /\ obj[k] # <<>>

(* { k1: obj.K1, ... }: the keys whose value is undefined are left out *)
Pick(obj, from, to) == IF Has(obj, from) THEN to :> obj[from] ELSE <<>>

----------------------------------------------------------------------------
(* parseInt *)

Digits == <<"0", "1", "2", "3", "4", "5", "6", "7", "8", "9">>
IsDigit(ch) == \E i \in 1..10 : Digits[i] = ch
DigitValue(ch) == (CHOOSE i \in 1..10 : Digits[i] = ch) - 1
IsSpace(ch) == ch = " "

NaN == [nan |-> TRUE, val |-> 0]
Num(n) == [nan |-> FALSE, val |-> n]

RECURSIVE SkipSpaces(_)
SkipSpaces(s) == IF s # <<>> /\ IsSpace(Head(s)) THEN SkipSpaces(Tail(s)) ELSE s

RECURSIVE LeadingDigits(_)
LeadingDigits(s) ==
    IF s # <<>> /\ IsDigit(Head(s)) THEN <<Head(s)>> \o LeadingDigits(Tail(s)) ELSE <<>>

RECURSIVE DecimalValue(_)
DecimalValue(ds) ==
    IF ds = <<>> THEN 0
    ELSE 10 * DecimalValue(SubSeq(ds, 1, Len(ds) - 1)) + DigitValue(ds[Len(ds)])

(* parseInt(s): leading white space, an optional sign, then the longest    *)
(* run of decimal digits; NaN when there is no digit                       *)
ParseInt(s) ==
    LET t == SkipSpaces(s)
        neg == t # <<>> /\ Head(t) = "-"
        u == IF t # <<>> /\ Head(t) \in {"-", "+"} THEN Tail(t) ELSE t
        ds == LeadingDigits(u)
    IN  IF ds = <<>> THEN NaN
        ELSE Num(IF neg THEN 0 - DecimalValue(ds) ELSE DecimalValue(ds))

(* Fault: n >= k where the code has n > k *)
GtOrEq(n, k) == ~n.nan /\ n.val >= k

(* n > k and n === k on JavaScript numbers: both false on NaN *)
Gt(n, k) == ~n.nan /\ n.val > k
StrictEq(n, k) == ~n.nan /\ n.val = k

----------------------------------------------------------------------------
(* POST /call-status: the status and the message that are folded *)

TerminalRaw == {"completed", "failed", "busy", "no-answer", "canceled"}
(* Fault: code 603 (Decline) is left out *)
DeclineSipNo603 == {"487", "486", "480"}
DeclineSip == {"487", "486", "480", "603"}
MachineEnd == {"machine_end_beep", "machine_end_silence", "machine_end_other"}

ParsedDuration(body) ==
    IF TruthyChars(body, "CallDuration") THEN ParseInt(body.CallDuration) ELSE Num(0)

Normalize(body) ==
    LET status == body.CallStatus
        duration == ParsedDuration(body)
    IN  IF status = "completed" \/ status = "failed" THEN
            IF Gt(duration, RealConversation) THEN
                [status |-> "completed", message |-> "call completed"]
            ELSE IF \/ (Has(body, "SipResponseCode") /\ body.SipResponseCode \in DeclineSip)
                    \/ (StrictEq(duration, 0) /\ ~Truthy(body, "AnsweredBy")) THEN
                [status |-> "declined", message |-> "call was declined"]
            ELSE IF Has(body, "AnsweredBy") /\ body.AnsweredBy \in MachineEnd THEN
                [status |-> "machine", message |-> "call answered by voicemail"]
            ELSE IF status = "failed" THEN
                [status |-> status, message |-> "call failed"]
            ELSE
                [status |-> status, message |-> "call completed"]
        ELSE IF status = "busy" THEN
            [status |-> "declined", message |-> "line was busy"]
        ELSE IF status = "no-answer" THEN
            [status |-> "declined", message |-> "call was not answered"]
        ELSE IF status = "canceled" THEN
            [status |-> "declined", message |-> "call was canceled"]
        ELSE
            [status |-> status, message |-> status]

----------------------------------------------------------------------------
(* updateCallStatus *)

StatusUpdate(status, message, additionalData, ts) ==
    [status |-> status, message |-> message, timestamp |-> ts] @@ additionalData

(* Fault: an event that repeats the last one's status and message is not  *)
(* recorded again                                                          *)
UpdateCallStatusDedup(statuses, callSid, status, message, additionalData, ts) ==
    LET currentStatus ==
            IF MapHas(statuses, callSid) THEN statuses[callSid]
            ELSE [callSid |-> callSid, events |-> <<>>]
        statusUpdate == StatusUpdate(status, message, additionalData, ts)
        n == Len(currentStatus.events)
        repeated == /\ n > 0
                    /\ currentStatus.events[n].status = status
                    /\ Has(currentStatus.events[n], "message")
                    /\ currentStatus.events[n].message = message
        updated ==
            [k \in DOMAIN currentStatus \cup {"status", "lastUpdated"} |->
                CASE k = "status" -> status
                  [] k = "lastUpdated" -> statusUpdate.timestamp
                  [] k = "events" -> IF repeated THEN currentStatus.events
                                     ELSE Append(currentStatus.events, statusUpdate)
                  [] OTHER -> currentStatus[k]]
    IN  MapSet(statuses, callSid, updated)

(* Fault: an event for a call id that has no record is dropped *)
UpdateCallStatusStrict(statuses, callSid, status, message, additionalData, ts) ==
    IF ~MapHas(statuses, callSid) THEN statuses
    ELSE LET currentStatus == statuses[callSid]
             statusUpdate == StatusUpdate(status, message, additionalData, ts)
         IN  MapSet(statuses, callSid,
                    [currentStatus EXCEPT
                        !.status = status,
                        !.lastUpdated = statusUpdate.timestamp,
                        !.events = Append(@, statusUpdate)])

UpdateCallStatus(statuses, callSid, status, message, additionalData, ts) ==
    LET currentStatus ==
            IF MapHas(statuses, callSid) THEN statuses[callSid]
            ELSE [callSid |-> callSid, events |-> <<>>]
        statusUpdate == StatusUpdate(status, message, additionalData, ts)
        updated ==
            [k \in DOMAIN currentStatus \cup {"status", "lastUpdated"} |->
                CASE k = "status" -> status
                  [] k = "lastUpdated" -> statusUpdate.timestamp
                  [] k = "events" -> Append(currentStatus.events, statusUpdate)
                  [] OTHER -> currentStatus[k]]
    IN  MapSet(statuses, callSid, updated)

----------------------------------------------------------------------------
(* Timers *)

Dues == {h.due : h \in timeoutTimers} \cup {t.due : t \in BagToSet(retentionTimers)}
Earliest(d) == \A e \in Dues : d <= e

(* The clock may advance by d: no pending timer's due time is passed over  *)
(* (a timer's callback runs when it is due)                                *)
MayAdvance(d) == \A e \in Dues : now + d <= e

----------------------------------------------------------------------------
(* GET /call: the phone numbers *)

(* s.replace(/^\+/, '') *)
StripPlus(s) == IF s # <<>> /\ Head(s) = "+" THEN Tail(s) ELSE s

(* '+' + s.replace(/^\+/, '') *)
NormalizeNumber(s) == <<"+">> \o StripPlus(s)

(* /^\+\d{10,15}$/.test(s) *)
MatchesE164(s) ==
    /\ Len(s) >= 1
    /\ s[1] = "+"
    /\ Len(s) - 1 >= MinDigits
    /\ Len(s) - 1 <= MaxDigits
    /\ \A i \in 2..Len(s) : IsDigit(s[i])

(* the condition of the 400 answer, on the normalized numbers *)
InvalidNumbers(to, from) ==
    \/ to = <<>>
    \/ ~MatchesE164(to)
    \/ from = <<>>
    \/ ~MatchesE164(from)

----------------------------------------------------------------------------
(* The requests the environment sends *)

Chars(n) == [i \in 1..n |-> Digits[(i % 10) + 1]]

NumberA == <<"+">> \o Chars(11)
NumberB == Chars(10)

(* some or none of a key *)
Opt(k, S) == {<<>>} \cup {k :> v : v \in S}

StatusBody(c, s) == [CallSid |-> c, CallStatus |-> s]

(* the provider's callbacks of the ordinary runs *)
StatusBodies ==
    {StatusBody(c, s) : c \in CallIds, s \in {"initiated", "ringing", "busy"}}
    \cup {StatusBody(c, "completed") @@ [CallDuration |-> <<"5">>, AnsweredBy |-> "human"]
            : c \in CallIds}

VoiceBodies ==
    {[CallSid |-> c] @@ a : c \in CallIds,
                            a \in Opt("AnsweredBy", {"human", "machine_start"})}

CallQueries ==
    { [to |-> NumberA, from |-> NumberB],
      [to |-> NumberA],
      [to |-> Chars(9), from |-> NumberB] }

----------------------------------------------------------------------------
(* History *)

(* Per call sid: whether a handler folded an event before the timeout was  *)
(* armed and while it was pending, how many times the timeout folded, when *)
(* the last terminal raw status was folded (terminal) and when the one     *)
(* before which no deletion of the record was pending was (window); <<>>   *)
(* stands for never.                                                       *)
NoFolds == [beforeArm |-> FALSE, whileArmed |-> FALSE, synthetic |-> 0,
            terminal |-> <<>>, window |-> <<>>]

DeletionPending(callSid) == \E t \in BagToSet(retentionTimers) : t.callSid = callSid

(* a fold made by a handler (not by the timeout) for callSid *)
HandlerFold(callSid) ==
    [folds EXCEPT
        ![callSid].beforeArm = @ \/ ~MapHas(armed, callSid),
        ![callSid].whileArmed = @ \/ (\E h \in timeoutTimers : h.callSid = callSid)]

(* the fold of a terminal raw status by POST /call-status *)
TerminalFold(callSid) ==
    [HandlerFold(callSid) EXCEPT
        ![callSid].terminal = <<now>>,
        ![callSid].window = IF DeletionPending(callSid) THEN @ ELSE <<now>>]

----------------------------------------------------------------------------
Start ==
    /\ now = 0
    /\ callStatuses = EmptyMap
    /\ callTimeouts = EmptyMap
    /\ callStates = EmptyMap
    /\ timeoutTimers = {}
    /\ retentionTimers = EmptyBag
    /\ placing = EmptyBag
    /\ voicing = EmptyBag
    /\ usedSids = {}
    /\ lastStep = [op |-> "start"]
    /\ nSteps = 0
    /\ armed = EmptyMap
    /\ folds = [c \in CallIds |-> NoFolds]

Init == Start /\ inbox = <<>>

Received == nSteps < MaxSteps /\ nSteps' = nSteps + 1

----------------------------------------------------------------------------
(* GET /status/:callId *)

(* Fault: the lookup stores a default record for an unknown call id *)
GetStatusCreating(callId) ==
    /\ Received
    /\ callStatuses' =
         IF MapHas(callStatuses, callId) THEN callStatuses
         ELSE MapSet(callStatuses, callId, [callSid |-> callId, events |-> <<>>])
    /\ lastStep' =
         IF MapHas(callStatuses, callId)
         THEN [op |-> "GET /status", callSid |-> callId, code |-> 200,
               json |-> callStatuses[callId]]
         ELSE [op |-> "GET /status", callSid |-> callId, code |-> 404]
    /\ UNCHANGED <<now, callTimeouts, callStates, timeoutTimers, retentionTimers,
                   placing, voicing, usedSids, armed, folds>>

GetStatus(callId) ==
    /\ Received
    /\ lastStep' =
         IF MapHas(callStatuses, callId)
         THEN [op |-> "GET /status", callSid |-> callId, code |-> 200,
               json |-> callStatuses[callId]]
         ELSE [op |-> "GET /status", callSid |-> callId, code |-> 404]
    /\ UNCHANGED <<now, maps, timeoutTimers, retentionTimers, placing, voicing,
                   usedSids, armed, folds>>

----------------------------------------------------------------------------
(* POST /call-status *)

(* Fault: a raw status keeps the timestamp of its first observation *)
TrackStateFirst(states, callSid, status, ts) ==
    LET callState == IF MapHas(states, callSid) THEN states[callSid]
                     ELSE [timestamps |-> EmptyMap]
    IN  MapSet(states, callSid,
               IF MapHas(callState.timestamps, status) THEN callState
               ELSE [callState EXCEPT !.timestamps = MapSet(@, status, ts)])

(* callState.timestamps[status] = new Date(), on a state created when absent *)
TrackState(states, callSid, status, ts) ==
    LET callState == IF MapHas(states, callSid) THEN states[callSid]
                     ELSE [timestamps |-> EmptyMap]
    IN  MapSet(states, callSid,
               [callState EXCEPT !.timestamps = MapSet(@, status, ts)])

(* the extras handed to updateCallStatus *)
AdditionalData(body) ==
    Pick(body, "CallDuration", "duration")
    @@ Pick(body, "AnsweredBy", "answeredBy")
    @@ Pick(body, "SipResponseCode", "sipCode")

RetentionTimer(callSid, due) == [callSid |-> callSid, due |-> due]

(* Fault: only a terminal raw status clears the timeout *)
CallStatusReqTerminalDisarm(body) ==
    LET callSid == body.CallSid
        status == body.CallStatus
        folded == Normalize(body)
        terminal == status \in TerminalRaw
        tracked == TrackState(callStates, callSid, status, now)
    IN  /\ Received
        /\ callStates' = IF terminal THEN MapDelete(tracked, callSid) ELSE tracked
        /\ IF terminal /\ MapHas(callTimeouts, callSid)
           THEN /\ timeoutTimers' = timeoutTimers \ {callTimeouts[callSid]}
                /\ callTimeouts' = MapDelete(callTimeouts, callSid)
           ELSE UNCHANGED <<timeoutTimers, callTimeouts>>
        /\ callStatuses' = UpdateCallStatus(callStatuses, callSid, folded.status,
                                            folded.message, AdditionalData(body), now)
        /\ retentionTimers' =
             IF terminal
             THEN retentionTimers (+) SetToBag({RetentionTimer(callSid, now + RetentionWindow)})
             ELSE retentionTimers
        /\ folds' = IF terminal THEN TerminalFold(callSid) ELSE HandlerFold(callSid)
        /\ lastStep' = [op |-> "POST /call-status", callSid |-> callSid,
                        body |-> body, code |-> 200]
        /\ UNCHANGED <<now, placing, voicing, usedSids, armed>>

CallStatusReq(body) ==
    LET callSid == body.CallSid
        status == body.CallStatus
        folded == Normalize(body)
        terminal == status \in TerminalRaw
        tracked == TrackState(callStates, callSid, status, now)
    IN  /\ Received
        /\ callStates' = IF terminal THEN MapDelete(tracked, callSid) ELSE tracked
        /\ IF MapHas(callTimeouts, callSid)
           THEN /\ timeoutTimers' = timeoutTimers \ {callTimeouts[callSid]}
                /\ callTimeouts' = MapDelete(callTimeouts, callSid)
           ELSE UNCHANGED <<timeoutTimers, callTimeouts>>
        /\ callStatuses' = UpdateCallStatus(callStatuses, callSid, folded.status,
                                            folded.message, AdditionalData(body), now)
        /\ retentionTimers' =
             IF terminal
             THEN retentionTimers (+) SetToBag({RetentionTimer(callSid, now + RetentionWindow)})
             ELSE retentionTimers
        /\ folds' = IF terminal THEN TerminalFold(callSid) ELSE HandlerFold(callSid)
        /\ lastStep' = [op |-> "POST /call-status", callSid |-> callSid,
                        body |-> body, code |-> 200]
        /\ UNCHANGED <<now, placing, voicing, usedSids, armed>>

----------------------------------------------------------------------------
(* Timer callbacks.  A timer runs when it is due, the earliest first. *)

(* Fault: the expiry is folded as the provider's no-answer is *)
TimeoutFireNormalized(h) ==
    /\ h \in timeoutTimers
    /\ h.due <= now
    /\ Earliest(h.due)
    /\ timeoutTimers' = timeoutTimers \ {h}
    /\ callStatuses' = UpdateCallStatus(callStatuses, h.callSid, "declined",
                                        "call was not answered", <<>>, now)
    /\ folds' = [folds EXCEPT ![h.callSid].synthetic = @ + 1]
    /\ lastStep' = [op |-> "timeout", callSid |-> h.callSid]
    /\ UNCHANGED <<now, callTimeouts, callStates, retentionTimers, placing, voicing,
                   usedSids, nSteps, armed>>

(* the callback of the setTimeout in makeCall *)
TimeoutFire(h) ==
    /\ h \in timeoutTimers
    /\ h.due <= now
    /\ Earliest(h.due)
    /\ timeoutTimers' = timeoutTimers \ {h}
    /\ callStatuses' = UpdateCallStatus(callStatuses, h.callSid, "no-answer",
                                        "call was not answered (timeout)", <<>>, now)
    /\ folds' = [folds EXCEPT ![h.callSid].synthetic = @ + 1]
    /\ lastStep' = [op |-> "timeout", callSid |-> h.callSid]
    /\ UNCHANGED <<now, callTimeouts, callStates, retentionTimers, placing, voicing,
                   usedSids, nSteps, armed>>

(* Fault: the deletion spares a record that was updated after it was       *)
(* scheduled                                                               *)
RetentionFireIfStale(t) ==
    /\ BagIn(t, retentionTimers)
    /\ t.due <= now
    /\ Earliest(t.due)
    /\ retentionTimers' = retentionTimers (-) SetToBag({t})
    /\ callStatuses' =
         IF /\ MapHas(callStatuses, t.callSid)
            /\ callStatuses[t.callSid].lastUpdated > t.due - RetentionWindow
         THEN callStatuses
         ELSE MapDelete(callStatuses, t.callSid)
    /\ lastStep' = [op |-> "retention", callSid |-> t.callSid]
    /\ UNCHANGED <<now, callTimeouts, callStates, timeoutTimers, placing, voicing,
                   usedSids, nSteps, armed, folds>>

(* the callback of the setTimeout in POST /call-status *)
RetentionFire(t) ==
    /\ BagIn(t, retentionTimers)
    /\ t.due <= now
    /\ Earliest(t.due)
    /\ retentionTimers' = retentionTimers (-) SetToBag({t})
    /\ callStatuses' = MapDelete(callStatuses, t.callSid)
    /\ lastStep' = [op |-> "retention", callSid |-> t.callSid]
    /\ UNCHANGED <<now, callTimeouts, callStates, timeoutTimers, placing, voicing,
                   usedSids, nSteps, armed, folds>>

(* Time passes: to the next due time, or by one tick of the clock while    *)
(* the server is idle                                                      *)
TickTo(d) ==
    /\ d \in Dues
    /\ d > now
    /\ Earliest(d)
    /\ now' = d
    /\ UNCHANGED <<maps, timeoutTimers, retentionTimers, placing, voicing, usedSids,
                   lastStep, nSteps, armed, folds>>

Idle ==
    /\ Received
    /\ MayAdvance(ClockTick)
    /\ now' = now + ClockTick
    /\ UNCHANGED <<maps, timeoutTimers, retentionTimers, placing, voicing, usedSids,
                   lastStep, armed, folds>>

----------------------------------------------------------------------------
(* GET /call *)

PlacementError == "Failed to initiate call"
InvalidNumbersError == "Invalid to or from phone number"

(* Up to the await of client.calls.create.  to.replace on a missing        *)
(* parameter throws a TypeError, which the handler's catch answers.        *)
GetCall(query) ==
    /\ Received
    /\ IF ~Has(query, "to") \/ ~Has(query, "from") THEN
            /\ lastStep' = [op |-> "GET /call", query |-> query, code |-> 500,
                            error |-> PlacementError]
            /\ UNCHANGED placing
       ELSE LET to == NormalizeNumber(query.to)
                from == NormalizeNumber(query.from)
            IN  IF InvalidNumbers(to, from) THEN
                    /\ lastStep' = [op |-> "GET /call", query |-> query, code |-> 400,
                                    error |-> InvalidNumbersError]
                    /\ UNCHANGED placing
                ELSE
                    /\ lastStep' = [op |-> "GET /call", query |-> query]
                    /\ placing' = placing (+) SetToBag({[to |-> to, from |-> from]})
    /\ UNCHANGED <<now, maps, timeoutTimers, retentionTimers, voicing, usedSids,
                   armed, folds>>

(* the record GET /call stores; its two timestamps are two reads of the clock *)
InitialRecord(call, read1, read2) ==
    [callSid |-> call.sid, to |-> call.to, from |-> call.from, status |-> call.status,
     lastUpdated |-> read1,
     events |-> <<[status |-> call.status, timestamp |-> read2]>>]

TimeoutHandle(callSid, due) == [callSid |-> callSid, due |-> due]

(* client.calls.create resolves with a call the provider gave a fresh sid: *)
(* the rest of makeCall and the rest of the handler run without a break.   *)
(* The clock may tick between the handler's two reads of it.               *)
MakeCallResolve(p, sid, d) ==
    LET call == [sid |-> sid, to |-> p.to, from |-> p.from, status |-> "queued"]
        timeout == TimeoutHandle(call.sid, now + timeoutDuration)
    IN  /\ BagIn(p, placing)
        /\ sid \notin usedSids
        /\ MayAdvance(d)
        /\ placing' = placing (-) SetToBag({p})
        /\ usedSids' = usedSids \cup {sid}
        /\ timeoutTimers' = timeoutTimers \cup {timeout}
        /\ callTimeouts' = MapSet(callTimeouts, call.sid, timeout)
        /\ callStatuses' = MapSet(callStatuses, call.sid,
                                  InitialRecord(call, now, now + d))
        /\ now' = now + d
        /\ armed' = MapSet(armed, call.sid, timeout.due)
        /\ lastStep' = [op |-> "GET /call", callSid |-> call.sid, code |-> 200]
        /\ UNCHANGED <<callStates, retentionTimers, voicing, nSteps, folds>>

(* Fault: a rejected placement leaves a failed record behind *)
MakeCallRejectLeavesRecord(p) ==
    LET sid == CHOOSE c \in CallIds : TRUE
        call == [sid |-> sid, to |-> p.to, from |-> p.from, status |-> "failed"]
    IN  /\ BagIn(p, placing)
        /\ placing' = placing (-) SetToBag({p})
        /\ callStatuses' = MapSet(callStatuses, sid, InitialRecord(call, now, now))
        /\ lastStep' = [op |-> "GET /call", code |-> 500, error |-> PlacementError]
        /\ UNCHANGED <<now, callTimeouts, callStates, timeoutTimers, retentionTimers,
                       voicing, usedSids, nSteps, armed, folds>>

(* client.calls.create rejects: makeCall rethrows, the handler answers 500 *)
MakeCallReject(p) ==
    /\ BagIn(p, placing)
    /\ placing' = placing (-) SetToBag({p})
    /\ lastStep' = [op |-> "GET /call", code |-> 500, error |-> PlacementError]
    /\ UNCHANGED <<now, maps, timeoutTimers, retentionTimers, voicing, usedSids,
                   nSteps, armed, folds>>

----------------------------------------------------------------------------
(* POST /voice *)

Redirected == {"human", "unknown", "machine_end_silence", "machine_end_other"}
Voicemail == {"machine_start", "machine_end_beep"}
WebhookError == "Phone number not found in Twilio account"

VoiceFold(callSid, status, message) ==
    /\ callStatuses' = UpdateCallStatus(callStatuses, callSid, status, message, <<>>, now)
    /\ folds' = HandlerFold(callSid)

(* Up to the first await, or to the answer when there is none *)
Voice(body) ==
    LET callSid == body.CallSid
    IN  /\ Received
        /\ IF Has(body, "AnsweredBy") /\ body.AnsweredBy \in Redirected THEN
                /\ voicing' = voicing (+) SetToBag({callSid})
                /\ lastStep' = [op |-> "POST /voice", callSid |-> callSid]
                /\ UNCHANGED <<callStatuses, folds>>
           ELSE IF Has(body, "AnsweredBy") /\ body.AnsweredBy \in Voicemail THEN
                /\ VoiceFold(callSid, "machine", "call answered by voicemail")
                /\ lastStep' = [op |-> "POST /voice", callSid |-> callSid, code |-> 200]
                /\ UNCHANGED voicing
           ELSE
                /\ VoiceFold(callSid, "declined", "call was declined or not answered")
                /\ lastStep' = [op |-> "POST /voice", callSid |-> callSid, code |-> 200]
                /\ UNCHANGED voicing
        /\ UNCHANGED <<now, callTimeouts, callStates, timeoutTimers, retentionTimers,
                       placing, usedSids, armed>>

(* The awaited collaborators answer (the number lookup and the webhook     *)
(* request: no state changes between the two awaits): markup, an           *)
(* unexpected body, or an error, which the catch folds.                    *)
VoiceResume(callSid, outcome) ==
    /\ BagIn(callSid, voicing)
    /\ voicing' = voicing (-) SetToBag({callSid})
    /\ IF outcome = "error"
       THEN VoiceFold(callSid, "error", WebhookError)
       ELSE UNCHANGED <<callStatuses, folds>>
    /\ lastStep' = [op |-> "POST /voice", callSid |-> callSid, code |-> 200,
                    outcome |-> outcome]
    /\ UNCHANGED <<now, callTimeouts, callStates, timeoutTimers, retentionTimers,
                   placing, usedSids, nSteps, armed>>

VoiceOutcomes == {"markup", "unexpected", "error"}

----------------------------------------------------------------------------
(* The tracker under the provider's ordinary traffic *)

Next ==
    \/ \E callId \in CallIds : GetStatus(callId) /\ UNCHANGED inbox
    \/ \E query \in CallQueries : GetCall(query) /\ UNCHANGED inbox
    \/ \E p \in BagToSet(placing), sid \in CallIds, d \in {0, ClockTick} :
            MakeCallResolve(p, sid, d) /\ UNCHANGED inbox
    \/ \E p \in BagToSet(placing) : MakeCallReject(p) /\ UNCHANGED inbox
    \/ \E body \in StatusBodies : CallStatusReq(body) /\ UNCHANGED inbox
    \/ \E body \in VoiceBodies : Voice(body) /\ UNCHANGED inbox
    \/ \E callSid \in BagToSet(voicing), outcome \in VoiceOutcomes :
            VoiceResume(callSid, outcome) /\ UNCHANGED inbox
    \/ \E h \in timeoutTimers : TimeoutFire(h) /\ UNCHANGED inbox
    \/ \E t \in BagToSet(retentionTimers) : RetentionFire(t) /\ UNCHANGED inbox
    \/ \E d \in Dues : TickTo(d) /\ UNCHANGED inbox
    \/ Idle /\ UNCHANGED inbox

Spec == Init /\ [][Next]_vars

----------------------------------------------------------------------------
(* One request of any shape, handled from the initial state *)

InputCallId == "CA1"

RawStatuses == TerminalRaw \cup {"initiated", "ringing", "in-progress"}
SipCodes == {"487", "486", "480", "603", "404", "200"}
AnsweredBys == MachineEnd \cup {"human", "machine_start", "unknown"}

(* a duration as the provider writes it *)
Numeral(n) == IF n < 10 THEN <<Digits[n + 1]>>
              ELSE <<Digits[(n \div 10) + 1], Digits[(n % 10) + 1]>>

TestedDurations == {0, 1, 2, 3, 5, 12}
MalformedDurations == {<<>>, <<"a", "b", "c">>, <<"3", "s">>, <<" ", "7">>, <<"-", "4">>}

InputStatusBodies ==
    {StatusBody(InputCallId, s) @@ sip @@ dur @@ ab :
        s \in RawStatuses,
        sip \in Opt("SipResponseCode", SipCodes),
        dur \in Opt("CallDuration", {Numeral(n) : n \in TestedDurations}
                                     \cup MalformedDurations),
        ab \in Opt("AnsweredBy", AnsweredBys)}

InputNumbers ==
    { NumberA, NumberB, Chars(15), <<"+">> \o Chars(15),
      Chars(9), Chars(16), <<"+">> \o Chars(16), <<"+", "+">> \o Chars(10),
      Chars(5) \o <<"x">> \o Chars(5), Chars(10) \o <<" ">>, <<>> }

InputQueries == {t @@ f : t \in Opt("to", InputNumbers), f \in Opt("from", InputNumbers)}

InputRequests ==
    {[op |-> "POST /call-status", body |-> b] : b \in InputStatusBodies}
    \cup {[op |-> "GET /call", query |-> q] : q \in InputQueries}

InputInit == Start /\ inbox \in {<<r>> : r \in InputRequests}

InputNext ==
    \/ /\ inbox # <<>>
       /\ inbox[1].op = "POST /call-status"
       /\ CallStatusReq(inbox[1].body)
       /\ inbox' = <<>>
    \/ /\ inbox # <<>>
       /\ inbox[1].op = "GET /call"
       /\ GetCall(inbox[1].query)
       /\ inbox' = <<>>

InputSpec == InputInit /\ [][InputNext]_vars

----------------------------------------------------------------------------
(* What the claims read *)

LastEvent(callSid) == callStatuses[callSid].events[Len(callStatuses[callSid].events)]

(* the step that just ran was POST /call-status *)
StatusHandled == lastStep.op = "POST /call-status"

(* the status and the message the last step folded *)
Folded == [status |-> LastEvent(lastStep.callSid).status,
           message |-> LastEvent(lastStep.callSid).message]

Outcome(status, message) == [status |-> status, message |-> message]

----------------------------------------------------------------------------
(* Timeout *)

TimeoutMessage == "call was not answered (timeout)"
OneHour == 3600000

(* C1: for every call id, if a handler (POST /call-status or POST /voice)  *)
(* folded an event while the timeout armed at placement was pending, the   *)
(* timeout never folds its synthetic no-answer for that call id.           *)
C1_NoTimeoutFoldAfterEvent ==
    \A c \in CallIds : folds[c].whileArmed => folds[c].synthetic = 0

(* C2: for every placed call, the timeout folds at most once; when no      *)
(* handler folded an event while it was pending, it has folded exactly     *)
(* once as soon as the armed 45 seconds are over; and the fold sets the    *)
(* status to no-answer with the timeout message, not to declined.          *)
C2_ExactlyOneTimeoutFold ==
    \A c \in CallIds :
        /\ folds[c].synthetic <= 1
        /\ (MapHas(armed, c) /\ ~folds[c].whileArmed /\ now > armed[c])
              => folds[c].synthetic = 1
        /\ (lastStep.op = "timeout" /\ lastStep.callSid = c)
              => /\ MapHas(callStatuses, c)
                 /\ callStatuses[c].status = "no-answer"
                 /\ LastEvent(c).status = "no-answer"
                 /\ LastEvent(c).message = TimeoutMessage
                 /\ folds[c].synthetic = 1

C2_Witness ==
    \E c \in CallIds :
        /\ MapHas(armed, c)
        /\ ~folds[c].whileArmed
        /\ now > armed[c]
        /\ lastStep = [op |-> "timeout", callSid |-> c]
        /\ folds[c].synthetic = 1
        /\ callStatuses[c].status = "no-answer"

----------------------------------------------------------------------------
(* Retention *)

(* C3 as stated: after every fold of a terminal raw status, repeated ones  *)
(* included, the record is there for a lookup during one hour from that    *)
(* fold.                                                                   *)
C3_RetainedAfterEveryTerminalFold ==
    \A c \in CallIds :
        (folds[c].terminal # <<>> /\ now < folds[c].terminal[1] + OneHour)
            => MapHas(callStatuses, c)

(* C3 as amended: after a fold of a terminal raw status made when no       *)
(* deletion of the call's record was pending, the record is there for a    *)
(* lookup (GET /status answers 200, not 404) during one hour from that     *)
(* fold.                                                                   *)
C3_RetainedAfterFirstTerminalFold ==
    \A c \in CallIds :
        (folds[c].window # <<>> /\ now < folds[c].window[1] + OneHour)
            => MapHas(callStatuses, c)

(* a repeated terminal callback came later than the first and the window   *)
(* of the first is still open                                              *)
C3_Witness ==
    \E c \in CallIds :
        /\ folds[c].window # <<>>
        /\ folds[c].terminal # folds[c].window
        /\ now > folds[c].window[1]
        /\ now < folds[c].window[1] + OneHour
        /\ MapHas(callStatuses, c)

----------------------------------------------------------------------------
(* Events *)

IsPrefixPlusOne(old, new) == Len(new) = Len(old) + 1 /\ SubSeq(new, 1, Len(old)) = old

(* C4: while a record exists, every step leaves its events unchanged or    *)
(* appends exactly one entry; only the retention timer's deletion removes  *)
(* them.                                                                   *)
C4_EventsAppendOnly ==
    [][\A c \in CallIds :
         (MapHas(callStatuses, c) /\ MapHas(callStatuses', c))
            => \/ callStatuses'[c].events = callStatuses[c].events
               \/ IsPrefixPlusOne(callStatuses[c].events, callStatuses'[c].events)]_vars

----------------------------------------------------------------------------
(* Normalization *)

Declined == Outcome("declined", "call was declined")
Machine == Outcome("machine", "call answered by voicemail")
Completed == Outcome("completed", "call completed")

(* the reference table, on a duration given as a number *)
Reference(body, duration) ==
    LET raw == body.CallStatus
        sipDeclines == /\ Has(body, "SipResponseCode")
                       /\ body.SipResponseCode \in {"487", "486", "480", "603"}
        answeredByAbsent == ~Has(body, "AnsweredBy")
        voicemail == /\ Has(body, "AnsweredBy")
                     /\ body.AnsweredBy \in {"machine_end_beep", "machine_end_silence",
                                             "machine_end_other"}
    IN  CASE raw \in {"completed", "failed"} /\ duration > 2 -> Completed
          [] raw \in {"completed", "failed"} /\ duration <= 2
                /\ (sipDeclines \/ (duration = 0 /\ answeredByAbsent)) -> Declined
          [] raw \in {"completed", "failed"} /\ duration <= 2
                /\ ~(sipDeclines \/ (duration = 0 /\ answeredByAbsent))
                /\ voicemail -> Machine
          [] raw = "failed" /\ duration <= 2
                /\ ~(sipDeclines \/ (duration = 0 /\ answeredByAbsent))
                /\ ~voicemail -> Outcome("failed", "call failed")
          [] raw = "completed" /\ duration <= 2
                /\ ~(sipDeclines \/ (duration = 0 /\ answeredByAbsent))
                /\ ~voicemail -> Completed
          [] raw = "busy" -> Outcome("declined", "line was busy")
          [] raw = "no-answer" -> Outcome("declined", "call was not answered")
          [] raw = "canceled" -> Outcome("declined", "call was canceled")
          [] OTHER -> Outcome(raw, raw)

HasDuration(body, n) == Has(body, "CallDuration") /\ body.CallDuration = Numeral(n)

(* C5: for every raw status, SIP code, duration and answeredBy, the status *)
(* and message POST /call-status folds are those of the reference table    *)
(* (the table does not read the duration of a raw status other than        *)
(* completed and failed).                                                  *)
C5_FoldsReferenceTable ==
    StatusHandled =>
        LET body == lastStep.body
        IN  IF body.CallStatus \in {"completed", "failed"}
            THEN \A n \in TestedDurations :
                    HasDuration(body, n) => Folded = Reference(body, n)
            ELSE Folded = Reference(body, 0)

C5_Witness ==
    /\ StatusHandled
    /\ lastStep.body.CallStatus = "failed"
    /\ HasDuration(lastStep.body, 2)
    /\ ~Has(lastStep.body, "SipResponseCode")
    /\ Has(lastStep.body, "AnsweredBy")
    /\ lastStep.body.AnsweredBy = "machine_end_silence"
    /\ Folded = Machine

(* a completed event of duration 0 answered by machine_end_beep *)
BeepAtZero ==
    /\ StatusHandled
    /\ lastStep.body.CallStatus = "completed"
    /\ HasDuration(lastStep.body, 0)
    /\ Has(lastStep.body, "AnsweredBy")
    /\ lastStep.body.AnsweredBy = "machine_end_beep"

(* C6 as stated: a completed event with duration 0 and answeredBy          *)
(* machine_end_beep is folded as declined whatever the SIP code, an absent *)
(* one included.                                                           *)
C6_BeepAtZeroAlwaysDeclined == BeepAtZero => Folded = Declined

(* C6 as amended: such an event is folded as declined when its SIP code is *)
(* 487, 486, 480 or 603, and as machine (voicemail) when the SIP code is   *)
(* any other or absent.                                                    *)
C6_BeepAtZeroDeclinedBySip ==
    BeepAtZero =>
        IF /\ Has(lastStep.body, "SipResponseCode")
           /\ lastStep.body.SipResponseCode \in {"487", "486", "480", "603"}
        THEN Folded = Declined
        ELSE Folded = Machine

C6_Witness ==
    /\ BeepAtZero
    /\ Has(lastStep.body, "SipResponseCode")
    /\ lastStep.body.SipResponseCode = "603"
    /\ Folded = Declined

----------------------------------------------------------------------------
(* Folding *)

(* C7: handling the same terminal provider event twice in a row for a call *)
(* id leaves the status as the first handling left it and appends exactly  *)
(* one more entry to the events.                                           *)
C7_RepeatedTerminalEvent ==
    [][\A body \in StatusBodies :
         (/\ body.CallStatus \in TerminalRaw
          /\ StatusHandled
          /\ lastStep.body = body
          /\ CallStatusReq(body))
            => /\ MapHas(callStatuses, body.CallSid)
               /\ MapHas(callStatuses', body.CallSid)
               /\ callStatuses'[body.CallSid].status = callStatuses[body.CallSid].status
               /\ IsPrefixPlusOne(callStatuses[body.CallSid].events,
                                  callStatuses'[body.CallSid].events)]_vars

(* the same terminal event was handled twice and is recorded twice *)
C7_Witness ==
    \E c \in CallIds :
        /\ StatusHandled
        /\ lastStep.callSid = c
        /\ lastStep.body.CallStatus = "busy"
        /\ Len(callStatuses[c].events) = 2
        /\ Has(callStatuses[c].events[1], "message")
        /\ callStatuses[c].events[1].message = "line was busy"
        /\ callStatuses[c].events[2].message = "line was busy"
        /\ callStatuses[c].events[2].timestamp > callStatuses[c].events[1].timestamp

(* C8: a stored record has a non-empty events sequence, and its status and *)
(* lastUpdated are the status and the timestamp of the last entry.         *)
C8_RecordMirrorsLastEvent ==
    \A c \in DOMAIN callStatuses :
        /\ callStatuses[c].events # <<>>
        /\ callStatuses[c].status = LastEvent(c).status
        /\ callStatuses[c].lastUpdated = LastEvent(c).timestamp

----------------------------------------------------------------------------
(* Lookups and validation *)

(* C9: a GET /status of a call id that has no record answers 404 and       *)
(* leaves the three maps as they were.                                     *)
C9_UnknownLookupChangesNothing ==
    [][\A callId \in CallIds :
         (~MapHas(callStatuses, callId) /\ GetStatus(callId))
            => /\ lastStep'.code = 404
               /\ UNCHANGED maps]_vars

(* an unknown call id was looked up while another call had a record *)
C9_Witness ==
    /\ lastStep.op = "GET /status"
    /\ lastStep.code = 404
    /\ ~MapHas(callStatuses, lastStep.callSid)
    /\ callStatuses # EmptyMap

(* a parameter is missing or, once prefixed with +, is not + and 10 to 15  *)
(* digits                                                                  *)
Malformed(query, k) == ~Has(query, k) \/ ~MatchesE164(NormalizeNumber(query[k]))

(* C10: a GET /call whose to or from is missing or malformed is answered   *)
(* 400, places nothing and leaves the three maps as they were.             *)
C10_MalformedAnswered400 ==
    (/\ lastStep.op = "GET /call"
     /\ Has(lastStep, "query")
     /\ (Malformed(lastStep.query, "to") \/ Malformed(lastStep.query, "from")))
        => /\ Has(lastStep, "code")
           /\ lastStep.code = 400
           /\ placing = EmptyBag
           /\ callStatuses = EmptyMap
           /\ callTimeouts = EmptyMap
           /\ callStates = EmptyMap

----------------------------------------------------------------------------
(* Malformed fields *)

HasNoDigit(s) == \A i \in 1..Len(s) : ~IsDigit(s[i])

(* C11: for a completed or failed event, a missing CallDuration and a      *)
(* CallDuration that is no number are folded as CallDuration 0 is with the *)
(* same raw status, SIP code and answeredBy.                               *)
C11_MalformedDurationIsZero ==
    (/\ StatusHandled
     /\ lastStep.body.CallStatus \in {"completed", "failed"}
     /\ (~Has(lastStep.body, "CallDuration") \/ HasNoDigit(lastStep.body.CallDuration)))
        => Folded = Reference(lastStep.body, 0)

----------------------------------------------------------------------------
(* Retention after a terminal outcome *)

(* the step that just ran folded a terminal outcome for callSid: a         *)
(* terminal raw status from the provider, or the timeout's no-answer       *)
TerminalOutcomeFolded(callSid) ==
    \/ /\ StatusHandled
       /\ lastStep.callSid = callSid
       /\ lastStep.body.CallStatus \in TerminalRaw
    \/ lastStep = [op |-> "timeout", callSid |-> callSid]

(* C12: once a terminal outcome was folded for a call id, by a provider    *)
(* callback or by the timeout, the call has no tracking state and a        *)
(* deletion of its record is pending.                                      *)
C12_TerminalFoldArmsDeletion ==
    \A c \in CallIds :
        TerminalOutcomeFolded(c) => (~MapHas(callStates, c) /\ DeletionPending(c))

(* C13: a terminal raw status handled at time t leaves a deletion pending  *)
(* for t + 1 hour; a pending deletion goes away only by running, at its    *)
(* due time or after, and right after it ran the call id has no record,    *)
(* whatever was folded for the call id in between.                         *)
C13_DeletionUnconditional ==
    [][/\ \A body \in StatusBodies :
            (body.CallStatus \in TerminalRaw /\ CallStatusReq(body))
               => BagIn([callSid |-> body.CallSid, due |-> now + OneHour],
                        retentionTimers')
       /\ \A t \in BagToSet(retentionTimers) :
            CopiesIn(t, retentionTimers') < CopiesIn(t, retentionTimers)
               => (t.due <= now /\ ~MapHas(callStatuses', t.callSid))]_vars

(* the deletion scheduled by a terminal fold ran after a later fold for    *)
(* the same call id, and the record is gone                                *)
C13_Witness ==
    \E c \in CallIds :
        /\ lastStep = [op |-> "retention", callSid |-> c]
        /\ folds[c].window # <<>>
        /\ folds[c].terminal # folds[c].window
        /\ now = folds[c].window[1] + OneHour
        /\ ~MapHas(callStatuses, c)

----------------------------------------------------------------------------
(* Folding without a record *)

(* a record that holds the call id, no to, no from, and one event whose    *)
(* status is the record's                                                  *)
BareRecord(record, callSid) ==
    /\ DOMAIN record = {"callSid", "status", "lastUpdated", "events"}
    /\ record.callSid = callSid
    /\ Len(record.events) = 1
    /\ record.events[1].status = record.status
    /\ record.events[1].timestamp = record.lastUpdated

CreatesBareRecord(callSid, status) ==
    /\ MapHas(callStatuses', callSid)
    /\ BareRecord(callStatuses'[callSid], callSid)
    /\ callStatuses'[callSid].status = status

(* C14: every fold for a call id that has no record (a provider callback,  *)
(* a status write of POST /voice, the timeout's fold) creates a record     *)
(* that holds the call id, no to, no from, the folded status and exactly   *)
(* the folded event.                                                       *)
C14_FoldWithoutRecord ==
    [][\A c \in CallIds :
         ~MapHas(callStatuses, c) =>
            /\ \A body \in StatusBodies :
                 (body.CallSid = c /\ CallStatusReq(body))
                    => CreatesBareRecord(c, Normalize(body).status)
            /\ \A body \in VoiceBodies :
                 (body.CallSid = c /\ Voice(body) /\ Has(lastStep', "code"))
                    => /\ callStatuses'[c].status \in {"machine", "declined"}
                       /\ CreatesBareRecord(c, callStatuses'[c].status)
            /\ (BagIn(c, voicing) /\ VoiceResume(c, "error"))
                    => CreatesBareRecord(c, "error")
            /\ \A h \in timeoutTimers :
                 (h.callSid = c /\ TimeoutFire(h))
                    => CreatesBareRecord(c, "no-answer")]_vars

(* a callback was folded after the retention timer deleted the record *)
C14_Witness ==
    \E c \in CallIds :
        /\ StatusHandled
        /\ lastStep.callSid = c
        /\ MapHas(callStatuses, c)
        /\ BareRecord(callStatuses[c], c)
        /\ folds[c].window # <<>>
        /\ callStatuses[c].lastUpdated = folds[c].window[1] + OneHour

----------------------------------------------------------------------------
(* Placement *)

(* this step is the rest of GET /call after the provider placed the call   *)
(* as callSid                                                              *)
Placed(callSid) == callSid \notin usedSids /\ callSid \in usedSids'

(* C15: when the call id the provider assigned already has a record (one a *)
(* callback created before placement completed), storing the record at     *)
(* placement fails: the request is not answered 200 and the existing       *)
(* record stays as it was.                                                 *)
C15_DuplicateRecordRefused ==
    [][\A c \in CallIds :
         (Placed(c) /\ MapHas(callStatuses, c))
            => /\ callStatuses'[c] = callStatuses[c]
               /\ lastStep'.code # 200]_vars

----------------------------------------------------------------------------
(* A call left ringing *)

EventStatuses(callSid) ==
    [i \in 1..Len(callStatuses[callSid].events) |-> callStatuses[callSid].events[i].status]

(* the call was placed and then received initiated and ringing, and        *)
(* nothing else was ever folded for its call id                            *)
LeftRinging(callSid) ==
    /\ MapHas(armed, callSid)
    /\ ~folds[callSid].beforeArm
    /\ MapHas(callStatuses, callSid)
    /\ EventStatuses(callSid) = <<"queued", "initiated", "ringing">>

(* C16: a call that was placed and then received initiated and ringing,    *)
(* and no further callback, has status ringing, no pending timeout, no     *)
(* synthetic fold and no pending deletion; and no step but a further       *)
(* callback for its call id changes or removes its record.                 *)
C16_LeftRingingForever ==
    /\ [](\A c \in CallIds :
            LeftRinging(c) =>
                /\ callStatuses[c].status = "ringing"
                /\ ~MapHas(callTimeouts, c)
                /\ ~\E h \in timeoutTimers : h.callSid = c
                /\ folds[c].synthetic = 0
                /\ ~DeletionPending(c))
    /\ [][\A c \in CallIds :
            LeftRinging(c) =>
                /\ MapHas(callStatuses', c)
                /\ \/ callStatuses'[c] = callStatuses[c]
                   \/ /\ lastStep'.op \in {"POST /call-status", "POST /voice"}
                      /\ lastStep'.callSid = c]_vars

C16_Witness ==
    \E c \in CallIds :
        /\ LeftRinging(c)
        /\ folds[c].whileArmed
        /\ callStatuses[c].status = "ringing"
        /\ timeoutTimers = {}

----------------------------------------------------------------------------
(* Placement failure *)

(* C17: when client.calls.create rejects, GET /call answers 500 and the    *)
(* records, the timeouts, the tracking states and the pending timers are   *)
(* all left as they were before the answer.                                *)
C17_FailedPlacementCreatesNothing ==
    [][\A p \in BagToSet(placing) :
          MakeCallReject(p) =>
              /\ lastStep'.code = 500
              /\ lastStep'.error = PlacementError
              /\ UNCHANGED <<callStatuses, callTimeouts, callStates,
                             timeoutTimers, retentionTimers>>]_vars

C17_Witness ==
    /\ lastStep = [op |-> "GET /call", code |-> 500, error |-> PlacementError]
    /\ placing = EmptyBag
    /\ DOMAIN callStatuses = {}
    /\ DOMAIN callTimeouts = {}
    /\ DOMAIN callStates = {}
    /\ timeoutTimers = {}

----------------------------------------------------------------------------
(* The timeouts map against the pending timers *)

(* C18: the timeouts map holds an entry for a call id only while that      *)
(* call's timer is still pending.                                          *)
C18_TimeoutsMapOnlyPending ==
    \A c \in DOMAIN callTimeouts : callTimeouts[c] \in timeoutTimers

----------------------------------------------------------------------------
(* The tracking state's timestamps *)

Tracked(callSid, status) ==
    MapHas(callStates, callSid) /\ MapHas(callStates[callSid].timestamps, status)

(* C19: while a call's tracking state exists, no step changes a timestamp  *)
(* it already stores for a raw status.                                     *)
C19_TimestampOfFirstObservation ==
    [][\A c \in CallIds :
          (MapHas(callStates, c) /\ MapHas(callStates', c)) =>
              \A s \in DOMAIN callStates[c].timestamps :
                  /\ s \in DOMAIN callStates'[c].timestamps
                  /\ callStates'[c].timestamps[s] = callStates[c].timestamps[s]]_vars

(* C19, amended: after a callback with a non-terminal raw status is        *)
(* handled, the tracking state stores for that raw status the time of this *)
(* latest callback, the one its event in the record carries; a step        *)
(* changes a stored timestamp only by handling a callback with that raw    *)
(* status for that call id.                                                *)
C19_TimestampOfLatestObservation ==
    /\ [](\A c \in CallIds :
            (StatusHandled /\ lastStep.callSid = c
                /\ lastStep.body.CallStatus \notin TerminalRaw)
              => /\ Tracked(c, lastStep.body.CallStatus)
                 /\ callStates[c].timestamps[lastStep.body.CallStatus]
                        = LastEvent(c).timestamp)
    /\ [][\A c \in CallIds :
            (MapHas(callStates, c) /\ MapHas(callStates', c)) =>
                \A s \in DOMAIN callStates[c].timestamps :
                    /\ s \in DOMAIN callStates'[c].timestamps
                    /\ \/ callStates'[c].timestamps[s] = callStates[c].timestamps[s]
                       \/ /\ lastStep'.op = "POST /call-status"
                          /\ lastStep'.callSid = c
                          /\ lastStep'.body.CallStatus = s
                          /\ callStates'[c].timestamps[s] = now']_vars

C19_Witness ==
    \E c \in CallIds :
        /\ StatusHandled /\ lastStep.callSid = c
        /\ lastStep.body.CallStatus = "ringing"
        /\ MapHas(callStatuses, c)
        /\ Len(callStatuses[c].events) = 2
        /\ callStatuses[c].events[1].status = "ringing"
        /\ callStatuses[c].events[1].timestamp < callStatuses[c].events[2].timestamp
        /\ Tracked(c, "ringing")
        /\ callStates[c].timestamps["ringing"] = callStatuses[c].events[2].timestamp

====
